---- MODULE Spec2Model ----
(***************************************************************************)
(* MultiStoryContainer / MultiStoryListItem of the story viewer: the       *)
(* horizontally paginated list of per-user story groups, the imperative    *)
(* handle through which pause / long-press commands reach the              *)
(* StoryContainer of the current group, nextStory / previousStory, the     *)
(* two effects of the container, and the progressIndex an item hands to    *)
(* its StoryContainer.                                                     *)
(*                                                                         *)
(* JS array index k is position k + 1 of the TLA+ sequence.                *)
(***************************************************************************)
EXTENDS Integers, Sequences, FiniteSets, TLC

\* Bounds of the model.
MaxStories == 3        \* stories.length ranges over 0..MaxStories
MaxSlides == 2         \* viewedStories[i].length ranges over 0..MaxSlides

\* initialNumToRender of the FlatList.
InitialNumToRender == 2

\* lastReported before onUserStoryIndexChange was ever called.
NotReported == -1

VARIABLES
    stories,                  \* stories.length (prop)
    visible,                  \* prop
    onComplete,               \* prop: TRUE iff a callback is supplied
    onUserStoryIndexChange,   \* prop: 0 = undefined, else the callback's identity
    viewedStoriesProp,        \* prop: [given, val]
    storyIndex,               \* state owned by useMultiStoryContainer
    isLoading,                \* useState(false)
    itemsRef,                 \* itemsRef.current
    flatListRef,              \* TRUE iff flatListRef.current is attached
    rendered,                 \* indices of the list cells currently mounted
    trimPending,              \* effect of lines 122-124 scheduled
    reportPending,            \* effect of lines 150-152 scheduled
    lastReported,             \* last argument onUserStoryIndexChange received
    call                      \* what the last handler did to its collaborators

vars == <<stories, visible, onComplete, onUserStoryIndexChange,
          viewedStoriesProp, storyIndex, isLoading, itemsRef, flatListRef,
          rendered, trimPending, reportPending, lastReported, call>>

props == <<stories, visible, onComplete, onUserStoryIndexChange, viewedStoriesProp>>

----------------------------------------------------------------------------
\* JavaScript values

Num(n) == [type |-> "number", val |-> n]
Undef == [type |-> "undefined", val |-> 0]

\* x < n in JavaScript: undefined converts to NaN and every comparison is false
JsLess(x, n) == x.type = "number" /\ x.val < n

\* entries of itemsRef.current
Hole == [kind |-> "undefined", index |-> -1]
Null == [kind |-> "null", index |-> -1]
Item(i) == [kind |-> "item", index |-> i]

Max(a, b) == IF a > b THEN a ELSE b
Min(a, b) == IF a < b THEN a ELSE b
SetMax(S) == CHOOSE x \in S : \A y \in S : y <= x

\* arr[k]; out of range reads undefined
ItemsRefAt(ref, k) == IF k >= 0 /\ k + 1 <= Len(ref) THEN ref[k + 1] ELSE Hole

\* arr.slice(0, n)
Slice(ref, n) == SubSeq(ref, 1, Min(n, Len(ref)))

----------------------------------------------------------------------------
\* MultiStoryListItem

\* Array.prototype.findIndex((val) => !val)
FindIndex(arr) ==
    IF \E k \in 1..Len(arr) : ~arr[k]
    THEN (CHOOSE k \in 1..Len(arr) : ~arr[k] /\ \A j \in 1..(k - 1) : arr[j]) - 1
    ELSE -1

\* viewedStories = [] default of the container
ViewedStories(p) == IF p.given THEN p.val ELSE <<>>

\* viewedStories?.[index]?.findIndex(...)
storyInitialIndex(vs, index) ==
    IF index + 1 <= Len(vs) THEN Num(FindIndex(vs[index + 1])) ELSE Undef

\* storyInitialIndex < 0 ? 0 : storyInitialIndex
progressIndex(vs, index) ==
    LET sii == storyInitialIndex(vs, index)
    IN IF JsLess(sii, 0) THEN Num(0) ELSE sii

\* the cells whose StoryContainer is mounted: storyIndex === index || isLoading
StoryMounted == {i \in rendered : storyIndex = i \/ isLoading}

\* storyRef?.current?.<cmd>(arg) of the item with the given index
ItemHandle(index, mounted, cmd, arg) ==
    IF mounted THEN <<[item |-> index, cmd |-> cmd, arg |-> arg]>> ELSE <<>>

----------------------------------------------------------------------------
\* MultiStoryContainer

NoCmds == [cmds |-> <<>>, threw |-> FALSE]

ForwardNoChaining(ref, si, mounted, cmd, arg) ==
    LET t == ItemsRefAt(ref, si)
    IN IF t.kind = "item"
       THEN [cmds |-> ItemHandle(t.index, t.index \in mounted, cmd, arg), threw |-> FALSE]
       ELSE [cmds |-> <<>>, threw |-> TRUE]

ForwardNeighbour(ref, si, mounted, cmd, arg) ==
    LET t == ItemsRefAt(ref, si + 1)
    IN IF t.kind = "item"
       THEN [cmds |-> ItemHandle(t.index, t.index \in mounted, cmd, arg), threw |-> FALSE]
       ELSE NoCmds

\* itemsRef.current[storyIndex]?.<handler>(arg)
Forward(ref, si, mounted, cmd, arg) ==
    LET t == ItemsRefAt(ref, si)
    IN IF t.kind = "item"
       THEN [cmds |-> ItemHandle(t.index, t.index \in mounted, cmd, arg), threw |-> FALSE]
       ELSE NoCmds

\* flatListRef.current?.scrollToIndex({index})
ScrollToIndex(attached, index) == IF attached THEN <<index>> ELSE <<>>

\* onComplete?.()
Complete(given) == IF given THEN 1 ELSE 0

NextStoryOffByOne(si, len, attached, given) ==
    IF si = len
    THEN [scrolls |-> <<>>, completes |-> Complete(given)]
    ELSE IF si >= len - 1
    THEN [scrolls |-> <<>>, completes |-> 0]
    ELSE [scrolls |-> ScrollToIndex(attached, si + 1), completes |-> 0]

NextStorySameIndex(si, len, attached, given) ==
    IF si + 1 = len
    THEN [scrolls |-> <<>>, completes |-> Complete(given)]
    ELSE IF si >= len - 1
    THEN [scrolls |-> <<>>, completes |-> 0]
    ELSE [scrolls |-> ScrollToIndex(attached, si), completes |-> 0]

NextStoryResult(si, len, attached, given) ==
    IF si + 1 = len
    THEN [scrolls |-> <<>>, completes |-> Complete(given)]
    ELSE IF si >= len - 1
    THEN [scrolls |-> <<>>, completes |-> 0]
    ELSE [scrolls |-> ScrollToIndex(attached, si + 1), completes |-> 0]

PreviousStoryNoGuard(si, attached) ==
    [scrolls |-> ScrollToIndex(attached, si - 1), completes |-> 0]

PreviousStoryResult(si, attached) ==
    IF si = 0
    THEN [scrolls |-> <<>>, completes |-> 0]
    ELSE [scrolls |-> ScrollToIndex(attached, si - 1), completes |-> 0]

ReportDepsCallbackOnly(oldCb, newCb, oldIndex, newIndex) == oldCb # newCb

\* dependency list [onUserStoryIndexChange, storyIndex]
ReportDepsChanged(oldCb, newCb, oldIndex, newIndex) ==
    oldCb # newCb \/ oldIndex # newIndex

\* One commit of the list: the ref callback of renderItem (an inline arrow,
\* so re-invoked at every render) receives null for each cell that went away
\* and the element for each cell that is mounted.
Commit(ref, old, new) ==
    LET touched == old \cup new
        len == IF touched = {} THEN Len(ref) ELSE Max(Len(ref), SetMax(touched) + 1)
    IN [k \in 1..len |->
            IF (k - 1) \in new THEN Item(k - 1)
            ELSE IF (k - 1) \in old THEN Null
            ELSE IF k <= Len(ref) THEN ref[k]
            ELSE Hole]

\* the cells FlatList mounts first: initialNumToRender from initialScrollIndex
InitialRender(si, len) == {i \in 0..(len - 1) : i >= si /\ i < si + InitialNumToRender}

EffectsPending == trimPending \/ reportPending

Quiet(op) == [op |-> op, arg |-> FALSE, scrolls |-> <<>>, completes |-> 0,
              cmds |-> <<>>, reports |-> <<>>, threw |-> FALSE]

Init ==
    /\ stories \in 0..MaxStories
    /\ visible \in BOOLEAN
    /\ onComplete \in BOOLEAN
    /\ onUserStoryIndexChange \in 0..1
    /\ viewedStoriesProp = [given |-> FALSE, val |-> <<>>]
    /\ storyIndex \in 0..(MaxStories - 1)
    /\ isLoading = FALSE
    /\ rendered = (IF visible THEN InitialRender(storyIndex, stories) ELSE {})
    /\ itemsRef = Commit(<<>>, {}, rendered)
    /\ flatListRef = visible
    /\ trimPending = TRUE
    /\ reportPending = TRUE
    /\ lastReported = NotReported
    /\ call = Quiet("mount")

\* the two useEffect bodies, run after the commit that scheduled them
RunEffects ==
    /\ EffectsPending
    /\ itemsRef' = (IF trimPending THEN Slice(itemsRef, stories) ELSE itemsRef)
    /\ trimPending' = FALSE
    /\ reportPending' = FALSE
    /\ IF reportPending /\ onUserStoryIndexChange # 0
       THEN /\ lastReported' = storyIndex
            /\ call' = [Quiet("effects") EXCEPT !.reports = <<storyIndex>>]
       ELSE /\ lastReported' = lastReported
            /\ call' = Quiet("effects")
    /\ UNCHANGED <<props, storyIndex, isLoading, flatListRef, rendered>>

onScrollBeginDrag ==
    /\ LET r == Forward(itemsRef, storyIndex, StoryMounted, "pause", TRUE)
       IN call' = [Quiet("onScrollBeginDrag") EXCEPT !.cmds = r.cmds, !.threw = r.threw]
    /\ UNCHANGED <<props, storyIndex, isLoading, itemsRef, flatListRef, rendered,
                   trimPending, reportPending, lastReported>>

onScrollEndDrag ==
    /\ LET r == Forward(itemsRef, storyIndex, StoryMounted, "pause", FALSE)
       IN call' = [Quiet("onScrollEndDrag") EXCEPT !.cmds = r.cmds, !.threw = r.threw]
    /\ UNCHANGED <<props, storyIndex, isLoading, itemsRef, flatListRef, rendered,
                   trimPending, reportPending, lastReported>>

handleLongPress(visibility) ==
    /\ LET r == Forward(itemsRef, storyIndex, StoryMounted, "handleLongPress", visibility)
       IN call' = [Quiet("handleLongPress") EXCEPT !.arg = visibility,
                                                   !.cmds = r.cmds, !.threw = r.threw]
    /\ UNCHANGED <<props, storyIndex, isLoading, itemsRef, flatListRef, rendered,
                   trimPending, reportPending, lastReported>>

\* called by a mounted StoryContainer, which received it as a prop
nextStory ==
    /\ StoryMounted # {}
    /\ LET r == NextStoryResult(storyIndex, stories, flatListRef, onComplete)
       IN call' = [Quiet("nextStory") EXCEPT !.scrolls = r.scrolls,
                                             !.completes = r.completes]
    /\ UNCHANGED <<props, storyIndex, isLoading, itemsRef, flatListRef, rendered,
                   trimPending, reportPending, lastReported>>

previousStory ==
    /\ StoryMounted # {}
    /\ LET r == PreviousStoryResult(storyIndex, flatListRef)
       IN call' = [Quiet("previousStory") EXCEPT !.scrolls = r.scrolls,
                                                 !.completes = r.completes]
    /\ UNCHANGED <<props, storyIndex, isLoading, itemsRef, flatListRef, rendered,
                   trimPending, reportPending, lastReported>>

\* ProfileHeader.onClosePress of a mounted StoryContainer
onClosePress ==
    /\ StoryMounted # {}
    /\ call' = [Quiet("onClosePress") EXCEPT !.completes = Complete(onComplete)]
    /\ UNCHANGED <<props, storyIndex, isLoading, itemsRef, flatListRef, rendered,
                   trimPending, reportPending, lastReported>>

\* Modal.onRequestClose
onRequestClose ==
    /\ visible
    /\ call' = [Quiet("onRequestClose") EXCEPT !.completes = Complete(onComplete)]
    /\ UNCHANGED <<props, storyIndex, isLoading, itemsRef, flatListRef, rendered,
                   trimPending, reportPending, lastReported>>

\* FlatList.onLayout: setIsLoading(true), then the list renders again
onLayout ==
    /\ visible
    /\ ~EffectsPending
    /\ isLoading' = TRUE
    /\ itemsRef' = Commit(itemsRef, rendered, rendered)
    /\ call' = Quiet("onLayout")
    /\ UNCHANGED <<props, storyIndex, flatListRef, rendered, trimPending,
                   reportPending, lastReported>>

\* the hook moves storyIndex to the cell that became viewable
SetStoryIndex(i) ==
    /\ visible
    /\ ~EffectsPending
    /\ i \in rendered
    /\ i # storyIndex
    /\ storyIndex' = i
    /\ itemsRef' = Commit(itemsRef, rendered, rendered)
    /\ reportPending' = ReportDepsChanged(onUserStoryIndexChange, onUserStoryIndexChange,
                                          storyIndex, i)
    /\ call' = Quiet("setStoryIndex")
    /\ UNCHANGED <<props, isLoading, flatListRef, rendered, trimPending, lastReported>>

\* list virtualization mounts a cell
MountItem(i) ==
    /\ visible
    /\ ~EffectsPending
    /\ i \in 0..(stories - 1)
    /\ i \notin rendered
    /\ rendered' = rendered \cup {i}
    /\ itemsRef' = Commit(itemsRef, {}, {i})
    /\ call' = Quiet("mountItem")
    /\ UNCHANGED <<props, storyIndex, isLoading, flatListRef, trimPending,
                   reportPending, lastReported>>

\* list virtualization unmounts a cell
UnmountItem(i) ==
    /\ ~EffectsPending
    /\ i \in rendered
    /\ rendered' = rendered \ {i}
    /\ itemsRef' = Commit(itemsRef, {i}, {})
    /\ call' = Quiet("unmountItem")
    /\ UNCHANGED <<props, storyIndex, isLoading, flatListRef, trimPending,
                   reportPending, lastReported>>

\* the host passes another stories array
SetStories(n) ==
    /\ ~EffectsPending
    /\ stories' = n
    /\ rendered' = {i \in rendered : i < n}
    /\ itemsRef' = Commit(itemsRef, rendered, rendered')
    /\ trimPending' = TRUE
    /\ call' = Quiet("setStories")
    /\ UNCHANGED <<visible, onComplete, onUserStoryIndexChange, viewedStoriesProp,
                   storyIndex, isLoading, flatListRef, reportPending, lastReported>>

\* the host shows or hides the viewer: if (!visible) return null
SetVisible(b) ==
    /\ ~EffectsPending
    /\ b # visible
    /\ visible' = b
    /\ rendered' = (IF b THEN InitialRender(storyIndex, stories) ELSE {})
    /\ itemsRef' = Commit(itemsRef, rendered, rendered')
    /\ flatListRef' = b
    /\ call' = Quiet("setVisible")
    /\ UNCHANGED <<stories, onComplete, onUserStoryIndexChange, viewedStoriesProp,
                   storyIndex, isLoading, trimPending, reportPending, lastReported>>

\* the host passes another (or no) onUserStoryIndexChange
SetOnUserStoryIndexChange(cb) ==
    /\ ~EffectsPending
    /\ cb # onUserStoryIndexChange
    /\ onUserStoryIndexChange' = cb
    /\ itemsRef' = Commit(itemsRef, rendered, rendered)
    /\ reportPending' = ReportDepsChanged(onUserStoryIndexChange, cb, storyIndex, storyIndex)
    /\ call' = Quiet("setOnUserStoryIndexChange")
    /\ UNCHANGED <<stories, visible, onComplete, viewedStoriesProp, storyIndex,
                   isLoading, flatListRef, rendered, trimPending, lastReported>>

\* the host passes or withdraws onComplete
SetOnComplete(b) ==
    /\ ~EffectsPending
    /\ b # onComplete
    /\ onComplete' = b
    /\ itemsRef' = Commit(itemsRef, rendered, rendered)
    /\ call' = Quiet("setOnComplete")
    /\ UNCHANGED <<stories, visible, onUserStoryIndexChange, viewedStoriesProp,
                   storyIndex, isLoading, flatListRef, rendered, trimPending,
                   reportPending, lastReported>>

Next ==
    \/ RunEffects
    \/ onScrollBeginDrag
    \/ onScrollEndDrag
    \/ \E v \in BOOLEAN : handleLongPress(v)
    \/ nextStory
    \/ previousStory
    \/ onClosePress
    \/ onRequestClose
    \/ onLayout
    \/ \E i \in 0..(MaxStories - 1) : SetStoryIndex(i)
    \/ \E i \in 0..(MaxStories - 1) : MountItem(i)
    \/ \E i \in 0..(MaxStories - 1) : UnmountItem(i)
    \/ \E n \in 0..MaxStories : SetStories(n)
    \/ \E b \in BOOLEAN : SetVisible(b)
    \/ \E cb \in 0..2 : SetOnUserStoryIndexChange(cb)
    \/ \E b \in BOOLEAN : SetOnComplete(b)

Spec == Init /\ [][Next]_vars

----------------------------------------------------------------------------
\* The list item alone: the host varies viewedStories while cells mount,
\* unmount and become current.

RECURSIVE SeqsUpTo(_, _)
SeqsUpTo(S, n) ==
    IF n = 0 THEN {<<>>}
    ELSE LET shorter == SeqsUpTo(S, n - 1)
         IN shorter \cup {Append(q, x) : q \in {r \in shorter : Len(r) = n - 1}, x \in S}

ViewedStoriesProps ==
    {[given |-> FALSE, val |-> <<>>]} \cup
    {[given |-> TRUE, val |-> v] : v \in SeqsUpTo(SeqsUpTo(BOOLEAN, MaxSlides), MaxStories)}

\* the host passes a viewedStories whose entry for group i is now v
SetViewedStories(i, v) ==
    /\ ~EffectsPending
    /\ viewedStoriesProp.given
    /\ i + 1 <= Len(viewedStoriesProp.val)
    /\ v # viewedStoriesProp.val[i + 1]
    /\ viewedStoriesProp' = [viewedStoriesProp EXCEPT !.val[i + 1] = v]
    /\ itemsRef' = Commit(itemsRef, rendered, rendered)
    /\ call' = Quiet("setViewedStories")
    /\ UNCHANGED <<stories, visible, onComplete, onUserStoryIndexChange, storyIndex,
                   isLoading, flatListRef, rendered, trimPending, reportPending,
                   lastReported>>

InitItem ==
    /\ stories = MaxStories
    /\ visible = TRUE
    /\ onComplete = TRUE
    /\ onUserStoryIndexChange = 0
    /\ viewedStoriesProp \in ViewedStoriesProps
    /\ storyIndex = 0
    /\ isLoading = FALSE
    /\ rendered = InitialRender(storyIndex, stories)
    /\ itemsRef = Commit(<<>>, {}, rendered)
    /\ flatListRef = TRUE
    /\ trimPending = TRUE
    /\ reportPending = TRUE
    /\ lastReported = NotReported
    /\ call = Quiet("mount")

NextItem ==
    \/ RunEffects
    \/ onLayout
    \/ \E i \in 0..(MaxStories - 1) : SetStoryIndex(i)
    \/ \E i \in 0..(MaxStories - 1) : MountItem(i)
    \/ \E i \in 0..(MaxStories - 1) : UnmountItem(i)
    \/ \E i \in 0..(MaxStories - 1), v \in SeqsUpTo(BOOLEAN, MaxSlides) : SetViewedStories(i, v)

SpecItem == InitItem /\ [][NextItem]_vars

----------------------------------------------------------------------------
\* Properties

ForwardOps == {"onScrollBeginDrag", "onScrollEndDrag", "handleLongPress"}

ExpectedCmd(c) ==
    CASE c.op = "onScrollBeginDrag" -> [cmd |-> "pause", arg |-> TRUE]
      [] c.op = "onScrollEndDrag" -> [cmd |-> "pause", arg |-> FALSE]
      [] c.op = "handleLongPress" -> [cmd |-> "handleLongPress", arg |-> c.arg]

\* C1: a scroll-begin-drag, scroll-end-drag or handleLongPress(v) reaches at
\* most one StoryContainer, that of the item registered at
\* itemsRef[storyIndex], which is the item of index storyIndex; when that item
\* is registered the command is exactly pause(true), pause(false) or
\* handleLongPress(v) respectively, sent once.
C1_ForwardsToCurrentItemOnly ==
    call.op \in ForwardOps =>
        /\ \A k \in 1..Len(call.cmds) : call.cmds[k].item = storyIndex
        /\ ItemsRefAt(itemsRef, storyIndex).kind = "item" =>
              /\ ItemsRefAt(itemsRef, storyIndex).index = storyIndex
              /\ call.cmds = <<[item |-> storyIndex, cmd |-> ExpectedCmd(call).cmd,
                                arg |-> ExpectedCmd(call).arg]>>

C1_Witness ==
    /\ call.op = "handleLongPress"
    /\ call.arg = TRUE
    /\ call.cmds = <<[item |-> storyIndex, cmd |-> "handleLongPress", arg |-> TRUE]>>
    /\ \E i \in StoryMounted : i # storyIndex

\* C2: when 0 <= storyIndex and storyIndex + 1 < stories.length, nextStory
\* issues exactly one scrollToIndex, to storyIndex + 1, and does not call
\* onComplete.
C2_NextStoryScrollsForward ==
    (call.op = "nextStory" /\ 0 <= storyIndex /\ storyIndex + 1 < stories) =>
        /\ call.scrolls = <<storyIndex + 1>>
        /\ call.completes = 0

C2_Witness ==
    /\ call.op = "nextStory"
    /\ storyIndex + 1 < stories
    /\ onComplete
    /\ call.scrolls = <<storyIndex + 1>>

\* C3: previousStory never calls onComplete; at storyIndex 0 it issues no
\* scroll request, at storyIndex > 0 exactly one, to storyIndex - 1.
C3_PreviousStoryScrollsBack ==
    call.op = "previousStory" =>
        /\ call.completes = 0
        /\ storyIndex = 0 => call.scrolls = <<>>
        /\ storyIndex > 0 => call.scrolls = <<storyIndex - 1>>

C3_Witness ==
    /\ call.op = "previousStory"
    /\ storyIndex > 0
    /\ onComplete
    /\ call.scrolls = <<storyIndex - 1>>

\* C4: once the effects have run, the last value a supplied
\* onUserStoryIndexChange received is the current storyIndex, visible or not.
C4_LastReportedIsStoryIndex ==
    (~EffectsPending /\ onUserStoryIndexChange # 0) => lastReported = storyIndex

C4_Witness ==
    /\ call.op = "effects"
    /\ call.reports = <<storyIndex>>
    /\ ~visible
    /\ ~EffectsPending

\* C5: on the last group (storyIndex + 1 = stories.length) nextStory calls a
\* supplied onComplete exactly once and issues no scroll request; no call of
\* nextStory both completes and scrolls.
C5_NextStoryCompletesOnLast ==
    call.op = "nextStory" =>
        /\ storyIndex + 1 = stories =>
              /\ call.completes = (IF onComplete THEN 1 ELSE 0)
              /\ call.scrolls = <<>>
        /\ ~(call.completes > 0 /\ call.scrolls # <<>>)
        /\ call.completes <= 1
        /\ Len(call.scrolls) <= 1

C5_Witness ==
    /\ call.op = "nextStory"
    /\ storyIndex + 1 = stories
    /\ call.completes = 1
    /\ call.scrolls = <<>>

FirstUnviewed(vs, i) ==
    IF i + 1 <= Len(vs) /\ \E k \in 1..Len(vs[i + 1]) : ~vs[i + 1][k]
    THEN (CHOOSE k \in 1..Len(vs[i + 1]) :
              ~vs[i + 1][k] /\ \A j \in 1..(k - 1) : vs[i + 1][j]) - 1
    ELSE 0

\* C6: the progressIndex handed to the StoryContainer of the group at index i
\* is a defined integer >= 0: the position of the first false entry of
\* viewedStories[i], and 0 when there is no false entry or no entry for i.
C6_ProgressIndexDefined ==
    \A i \in StoryMounted :
        LET p == progressIndex(ViewedStories(viewedStoriesProp), i)
        IN /\ p.type = "number"
           /\ p.val >= 0
           /\ p.val = FirstUnviewed(ViewedStories(viewedStoriesProp), i)

\* C7: when no item is registered at itemsRef[storyIndex], or its
\* StoryContainer is not mounted, a forwarding handler raises no error, sends
\* no command to any item and leaves storyIndex unchanged.
C7_ForwardToNothingIsNoOp ==
    [][(/\ call'.op \in ForwardOps
        /\ \/ ItemsRefAt(itemsRef, storyIndex).kind # "item"
           \/ storyIndex \notin StoryMounted)
       => (/\ call'.cmds = <<>>
           /\ ~call'.threw
           /\ storyIndex' = storyIndex)]_vars

C7_Witness ==
    /\ call.op \in ForwardOps
    /\ ~EffectsPending
    /\ storyIndex >= stories
    /\ Len(itemsRef) <= stories
    /\ ItemsRefAt(itemsRef, storyIndex).kind = "undefined"
    /\ StoryMounted # {}
    /\ call.cmds = <<>>

====
